---- MODULE Spec2Model ----
(***************************************************************************)
(* Model of the autonomous CI/CD pipeline healer                           *)
(* (YashShinde24/autonomous_CICD_pipeline_healer, backend).                *)
(*                                                                         *)
(* Six components are modelled, each with its own specification (the       *)
(* broadcast has two):                                                     *)
(*   Spec      the healing pipeline built by graph.compile()               *)
(*             (app/agents/graph.py and the nodes it wires),               *)
(*   SpecGit   the GitHubClient / commit_fix API driven by any caller      *)
(*             (app/integrations/github_client.py, nodes/git_committer.py),*)
(*   SpecRetry one RetryManager object (app/core/retry_manager.py),        *)
(*   SpecCalls the functions classify_failure, reconstruct_format,         *)
(*             validate_fix, monitor_ci, run_pytest_in_docker, the         *)
(*             conditional edge functions and the merge of the log buffer  *)
(*             on bounded sets of inputs,                                  *)
(*   SpecWS    the progress broadcast of one run to its observers          *)
(*             (main.py: send_to_run, websocket_endpoint, run_pipeline),   *)
(*   SpecRuns  the same with two runs created and one observer connected,  *)
(*   SpecBuilt the graph of graph_builder.build_graph(), which             *)
(*             orchestrator.run_pipeline invokes.                          *)
(* A specification leaves the variables of the other components at their   *)
(* idle values.                                                            *)
(***************************************************************************)
EXTENDS Integers, Sequences, FiniteSets, TLC

VARIABLES
    pc,        \* pipeline: the node the executor runs next, or END / RAISED / IDLE
    state,     \* pipeline: the AgentState threaded through the nodes
    env,       \* pipeline: the collaborators' behaviour for this run
    runs,      \* pipeline: how many times each node has been executed
    prev,      \* pipeline: the node executed last and what it did
    repo,      \* the local git repository and working tree
    ret,       \* the last GitHubClient / commit_fix call and its outcome
    rm,        \* a RetryManager object: max_retries and _attempts
    rmret,     \* the last RetryManager call and what it returned
    call,      \* the last call of a function of the repair pipeline or of the
               \* CI poller, with its arguments and what it handed back
    websocket_connections,  \* main.py: the subscriber list of each run, if it has one
    sock,      \* each observer's websocket: open, broken (sends fail) or closed
    bcast,     \* the send_to_run coroutine of each run
    pipeline_runs,          \* main.py: the registry entry of each run, with its
                            \* log buffer and where its run_pipeline stands
    received,  \* the pipeline_update each observer has got last, by run: the
               \* place of its node in the order of completion, 0 when none
    built      \* graph_builder: the node the executor of build_graph()'s graph
               \* runs next and the fields of its state the routing reads

vars == <<pc, state, env, runs, prev, repo, ret, rm, rmret, call,
          websocket_connections, sock, bcast, pipeline_runs, received, built>>

-----------------------------------------------------------------------------
(* Bounds of the model *)

\* largest max_retries a run or a RetryManager is given
MaxRetries == 2
\* most track_attempt calls made on one RetryManager
MaxAttempts == 5
\* most commits and most pushes one SpecGit behaviour creates
MaxGitOps == 2
\* most entries of run R's subscriber list
MaxSubs == 2
\* most node completions run_pipeline streams for run R
MaxUpdates == 2

-----------------------------------------------------------------------------
(* app/core/retry_manager.py *)

\* RetryManager.__init__
RetryManager(max_retries) == [max_retries |-> max_retries, _attempts |-> 0]

has_exceeded_off_by_one(m) == m._attempts > m.max_retries

\* RetryManager.has_exceeded
has_exceeded(m) == m._attempts >= m.max_retries

should_retry_any_conclusion(m, conclusion) == ~has_exceeded(m)

\* RetryManager.should_retry
should_retry(m, conclusion) ==
    IF conclusion # "failure" THEN FALSE
    ELSE IF has_exceeded(m) THEN FALSE
    ELSE TRUE

track_attempt_capped(m) == IF has_exceeded(m) THEN m ELSE [m EXCEPT !._attempts = @ + 1]

track_attempt_twice(m) == [m EXCEPT !._attempts = @ + 2]

\* RetryManager.track_attempt
track_attempt(m) == [m EXCEPT !._attempts = @ + 1]

\* the conclusions a caller passes to should_retry
Conclusions == {"failure", "success", "cancelled", "timed_out"}

NoCall == [op |-> "none"]

RetryIdle == rm = RetryManager(0) /\ rmret = NoCall

RetryStart ==
    /\ \E n \in 0..MaxRetries : rm = RetryManager(n)
    /\ rmret = NoCall

CallTrackAttempt ==
    /\ rm._attempts < MaxAttempts
    /\ rm' = track_attempt(rm)
    /\ rmret' = [op |-> "track_attempt", before |-> rm._attempts]

CallShouldRetry ==
    \E c \in Conclusions :
        /\ rm' = rm
        /\ rmret' = [op |-> "should_retry", conclusion |-> c,
                     result |-> should_retry(rm, c)]

CallHasExceeded ==
    /\ rm' = rm
    /\ rmret' = [op |-> "has_exceeded", result |-> has_exceeded(rm)]

-----------------------------------------------------------------------------
(* app/integrations/github_client.py *)

COMMIT_PREFIX == "[AI-AGENT]"

PROTECTED_BRANCHES == {"main", "master"}

\* HEAD points at no branch: repo.active_branch raises TypeError
DETACHED == "(detached)"

BranchNames == {"main", "master", "fix-a", "fix-b"}

Messages == {"m1", "m2"}

CleanTree == [staged |-> FALSE, unstaged |-> FALSE, untracked |-> FALSE]

Trees == [staged : BOOLEAN, unstaged : BOOLEAN, untracked : BOOLEAN]

\* Repo.is_dirty(untracked_files=True)
is_dirty(tree) == tree.staged \/ tree.unstaged \/ tree.untracked

\* repo.git.add(A=True): every change of the working tree goes to the index
git_add_all(tree) ==
    [staged |-> is_dirty(tree), unstaged |-> FALSE, untracked |-> FALSE]

assert_not_protected_main_only(r) ==
    IF r.active = DETACHED THEN "TypeError"
    ELSE IF r.active = "main" THEN "BranchProtectionError"
    ELSE "OK"

\* GitHubClient._assert_not_protected: the exception it raises, or OK
assert_not_protected(r) ==
    IF r.active = DETACHED THEN "TypeError"
    ELSE IF r.active \in PROTECTED_BRANCHES THEN "BranchProtectionError"
    ELSE "OK"

\* GitHubClient.__init__: Repo(repo_path) raises on a path that holds no repository
open_client(r) == IF r.valid THEN "OK" ELSE "InvalidGitRepositoryError"

\* GitHubClient.create_branch
create_branch(r, branch_name) ==
    IF branch_name \in PROTECTED_BRANCHES
    THEN [repo |-> r, res |-> "BranchProtectionError"]
    ELSE IF branch_name \in r.heads
    THEN [repo |-> r, res |-> "OSError"]
    ELSE [repo |-> [r EXCEPT !.heads = @ \cup {branch_name}, !.active = branch_name],
          res |-> "OK"]

\* app/core/guard.py, validate_commit_message: message.startswith("[AI-AGENT]");
\* the exception it raises, or OK
validate_commit_message(message) ==
    IF /\ Len(message) >= Len(COMMIT_PREFIX)
       /\ SubSeq(message, 1, Len(COMMIT_PREFIX)) = COMMIT_PREFIX
    THEN "OK"
    ELSE "Exception"

commit_all_bare_message(r, message, fault) ==
    LET guard == assert_not_protected(r)
        added == git_add_all(r.tree)
    IN  IF guard # "OK" THEN [repo |-> r, res |-> guard]
        ELSE IF fault THEN [repo |-> r, res |-> "GitCommandError"]
        ELSE IF ~added.staged /\ ~added.untracked
        THEN [repo |-> [r EXCEPT !.tree = added], res |-> "OK"]
        ELSE [repo |-> [r EXCEPT !.tree = CleanTree,
                                 !.commits = Append(@, [branch |-> r.active,
                                                        message |-> message])],
              res |-> "OK"]

commit_all_unguarded(r, message, fault) ==
    LET added == git_add_all(r.tree)
    IN  IF fault THEN [repo |-> r, res |-> "GitCommandError"]
        ELSE IF ~added.staged /\ ~added.untracked
        THEN [repo |-> [r EXCEPT !.tree = added], res |-> "OK"]
        ELSE [repo |-> [r EXCEPT !.tree = CleanTree,
                                 !.commits = Append(@, [branch |-> r.active,
                                     message |-> COMMIT_PREFIX \o " " \o message])],
              res |-> "OK"]

commit_all_raises_when_clean(r, message, fault) ==
    LET guard == assert_not_protected(r)
        added == git_add_all(r.tree)
    IN  IF guard # "OK" THEN [repo |-> r, res |-> guard]
        ELSE IF fault THEN [repo |-> r, res |-> "GitCommandError"]
        ELSE IF ~added.staged /\ ~added.untracked
        THEN [repo |-> [r EXCEPT !.tree = added], res |-> "NoChangesDetectedError"]
        ELSE [repo |-> [r EXCEPT !.tree = CleanTree,
                                 !.commits = Append(@, [branch |-> r.active,
                                     message |-> COMMIT_PREFIX \o " " \o message])],
              res |-> "OK"]

\* GitHubClient.commit_all; fault: the underlying git command fails
commit_all(r, message, fault) ==
    LET guard == assert_not_protected(r)
        added == git_add_all(r.tree)
    IN  IF guard # "OK" THEN [repo |-> r, res |-> guard]
        ELSE IF fault THEN [repo |-> r, res |-> "GitCommandError"]
        ELSE IF ~added.staged /\ ~added.untracked
        THEN [repo |-> [r EXCEPT !.tree = added], res |-> "OK"]
        ELSE [repo |-> [r EXCEPT !.tree = CleanTree,
                                 !.commits = Append(@, [branch |-> r.active,
                                     message |-> COMMIT_PREFIX \o " " \o message])],
              res |-> "OK"]

\* GitHubClient.push_current_branch; fault: the underlying git command fails
push_current_branch(r, fault) ==
    LET guard == assert_not_protected(r)
    IN  IF guard # "OK" THEN [repo |-> r, res |-> guard]
        ELSE IF fault THEN [repo |-> r, res |-> "GitCommandError"]
        ELSE [repo |-> [r EXCEPT !.pushes = Append(@, r.active)], res |-> "OK"]

-----------------------------------------------------------------------------
(* app/agents/nodes/git_committer.py *)

\* commit_fix
commit_fix(r, message, fault) ==
    IF open_client(r) # "OK" THEN [repo |-> r, res |-> open_client(r)]
    ELSE IF ~is_dirty(r.tree) THEN [repo |-> r, res |-> "NoChangesDetectedError"]
    ELSE LET c == commit_all(r, message, fault)
         IN  IF c.res # "OK" THEN c ELSE push_current_branch(c.repo, fault)

-----------------------------------------------------------------------------
(* SpecGit: any caller driving the GitHubClient API on one repository *)

NoGitCall == [op |-> "none"]

\* what a call did, next to the branch and tree it was made on
Outcome(op, r, out) ==
    [op |-> op, res |-> out.res, branch |-> r.active, dirty |-> is_dirty(r.tree),
     committed |-> Len(out.repo.commits) > Len(r.commits),
     pushed |-> Len(out.repo.pushes) > Len(r.pushes)]

GitStart ==
    /\ \E heads \in {{"main"}, {"master"}, {"main", "fix-a"}} :
       \E a \in heads \cup {DETACHED} :
       \E t \in Trees :
           repo = [valid |-> TRUE, active |-> a, heads |-> heads, tree |-> t,
                   tests |-> "tests", commits |-> <<>>, pushes |-> <<>>]
    /\ ret = NoGitCall

CallCreateBranch ==
    \E b \in BranchNames :
        LET out == create_branch(repo, b)
        IN  /\ repo' = out.repo
            /\ ret' = Outcome("create_branch", repo, out)

CallCommitAll ==
    \E m \in Messages, fault \in BOOLEAN :
        LET out == commit_all(repo, m, fault)
        IN  /\ Len(repo.commits) < MaxGitOps
            /\ repo' = out.repo
            /\ ret' = Outcome("commit_all", repo, out)

CallPushCurrentBranch ==
    \E fault \in BOOLEAN :
        LET out == push_current_branch(repo, fault)
        IN  /\ Len(repo.pushes) < MaxGitOps
            /\ repo' = out.repo
            /\ ret' = Outcome("push_current_branch", repo, out)

CallCommitFix ==
    \E m \in Messages, fault \in BOOLEAN :
        LET out == commit_fix(repo, m, fault)
        IN  /\ Len(repo.commits) < MaxGitOps
            /\ Len(repo.pushes) < MaxGitOps
            /\ repo' = out.repo
            /\ ret' = Outcome("commit_fix", repo, out)

\* outside the client: files of the working tree are edited, staged or created
EditTree ==
    /\ \E t \in Trees : t # repo.tree /\ repo' = [repo EXCEPT !.tree = t]
    /\ ret' = NoGitCall

\* outside the client: another branch, or a bare commit, is checked out
Checkout ==
    /\ \E a \in repo.heads \cup {DETACHED} :
           a # repo.active /\ repo' = [repo EXCEPT !.active = a]
    /\ ret' = NoGitCall

-----------------------------------------------------------------------------
(* app/core/docker_sandbox.py and app/agents/nodes/test_executor.py *)

None == "None"

\* where a repository keeps its tests: in tests/, in test_*.py files of its
\* root, nowhere (no tests directory either), or nowhere with an empty tests
\* directory
Layouts == {"tests", "root_tests", "none", "empty_dir"}

\* the repository path handed to the sandbox: a directory, a directory that
\* cannot be written to, a path that does not exist, or a file
PathStates == {"ok", "read_only", "missing", "not_a_directory"}

\* os.path.exists(test_dir)
test_dir_exists(path, layout) ==
    path \in {"ok", "read_only"} /\ layout \in {"tests", "empty_dir"}

\* os.listdir(repo_path): the exception it raises, or OK
listdir(path) ==
    CASE path = "missing" -> "FileNotFoundError"
      [] path = "not_a_directory" -> "NotADirectoryError"
      [] OTHER -> "OK"

\* what subprocess.run of the docker command does: the exit code of pytest, or
\* one of the exceptions the sandbox catches; out: whether output was captured
ProcessOutcomes ==
    [kind : {"exit"}, code : {0, 1, 5}, out : {TRUE}]
    \cup [kind : {"TimeoutExpired"}, code : {-1}, out : BOOLEAN]
    \cup [kind : {"FileNotFoundError", "SubprocessError", "OSError"}, code : {-1},
          out : {FALSE}]

\* what the docker command can do on a repository: pytest exits 0 only when
\* there are tests and they pass, 1 when a test fails (the fixture always does),
\* 5 when it collects no test
SuiteOutcomes(has_tests, has_fixture) ==
    { o \in ProcessOutcomes :
        o.kind = "exit" =>
            o.code \in (IF has_fixture THEN {1}
                        ELSE IF has_tests THEN {0, 1}
                        ELSE {5}) }

\* the test of line 59: no tests directory and no test_*.py in the root
needs_fixture(path, layout) ==
    ~test_dir_exists(path, layout) /\ listdir(path) = "OK" /\ layout # "root_tests"

\* run_pytest_in_docker: the result dictionary (stdout: whether output was
\* captured; fixture: whether tests/test_sample.py was written), or the exception
\* that leaves the function
run_pytest_in_docker(path, layout, proc) ==
    LET result == [raised |-> "", success |-> FALSE, exit_code |-> -1, stdout |-> FALSE,
                   error |-> None, fixture |-> needs_fixture(path, layout)]
    IN  IF ~test_dir_exists(path, layout) /\ listdir(path) # "OK"
        THEN [result EXCEPT !.raised = listdir(path)]
        ELSE IF needs_fixture(path, layout) /\ path = "read_only"
        THEN [result EXCEPT !.raised = "PermissionError", !.fixture = FALSE]
        ELSE CASE proc.kind = "exit" ->
                    [result EXCEPT !.exit_code = proc.code, !.stdout = proc.out,
                                   !.success = (proc.code = 0)]
               [] proc.kind = "TimeoutExpired" ->
                    [result EXCEPT !.error = "Timeout after 300s", !.stdout = proc.out]
               [] proc.kind = "FileNotFoundError" ->
                    [result EXCEPT !.error = "docker executable not found"]
               [] OTHER ->
                    [result EXCEPT !.error = proc.kind]

\* execute_tests: the `passed` of its result, or the exception of the sandbox
execute_tests(raw) == [raised |-> raw.raised, passed |-> raw.success]

-----------------------------------------------------------------------------
(* app/agents/graph.py: the pipeline of graph.compile() *)

END == "END"

\* a node let an exception escape: the executor stops the run with it
RAISED == "RAISED"

Nodes == {"clone_repo", "run_tests", "failure_classifier", "fix_generator",
          "fix_validator", "git_committer", "push_branch", "monitor_ci",
          "retry_decision"}

\* os.path.join("temp_repos", run_id)
LocalPath == "temp_repos/run"

\* what a node hands back to the executor: the merged state, or an exception
Returned(s) == [state |-> s, raised |-> FALSE]
Raised(s) == [state |-> s, raised |-> TRUE]

\* node_clone_repo; ok: clone_or_load_repo returned without raising
node_clone_repo(s, ok) ==
    IF ok
    THEN Returned([s EXCEPT !.repo_path = LocalPath,
                            !.logs = <<"Successfully cloned">>])
    ELSE Returned([s EXCEPT !.logs = <<"Failed to clone repository">>])

\* raw_errors of one failed run of the suite, as the lines of it that match
\* ([^:\s\n]+):(\d+): (.+): none, one on a file of the working tree, or two, the
\* first on a path of the container that the host does not have
ErrorOutputs ==
    { <<>>,
      <<[file |-> "app.py", line |-> 3]>>,
      <<[file |-> "/app/lib.py", line |-> 7], [file |-> "app.py", line |-> 3]>> }

\* the failure records node_run_tests appends for one failed run of the suite
ParsedFailures(s, errors) ==
    IF errors # <<>>
    THEN [i \in 1..Len(errors) |->
             [file |-> errors[i].file, line |-> errors[i].line, iteration |-> s.iteration]]
    ELSE <<[file |-> "unknown", line |-> 0, iteration |-> s.iteration]>>

node_run_tests_latest_only(s, passed, errors) ==
    LET logged == [s EXCEPT !.logs = Append(@, "[run_tests] passed=" \o ToString(passed))]
    IN  IF passed
        THEN Returned([logged EXCEPT !.ci_status = "passed",
                                     !.final_status = "passed",
                                     !.end_time = "set"])
        ELSE Returned([logged EXCEPT !.ci_status = "failed",
                                     !.failures = ParsedFailures(s, errors)])

\* node_run_tests; passed: execute_tests(repo_path)["passed"]
node_run_tests(s, passed, errors) ==
    LET logged == [s EXCEPT !.logs = Append(@, "[run_tests] passed=" \o ToString(passed))]
    IN  IF passed
        THEN Returned([logged EXCEPT !.ci_status = "passed",
                                     !.final_status = "passed",
                                     !.end_time = "set"])
        ELSE Returned([logged EXCEPT !.ci_status = "failed",
                                     !.failures = @ \o ParsedFailures(s, errors)])

-----------------------------------------------------------------------------
(* Texts. A text is a sequence of tokens: words, the separators of the
   classification grammar, " " and "\n". *)

Whitespace == {" ", "\n"}

Minimum(S) == CHOOSE x \in S : \A y \in S : x <= y
Maximum(S) == CHOOSE x \in S : \A y \in S : x >= y

RECURSIVE lstrip(_)
lstrip(t) == IF t # <<>> /\ Head(t) \in Whitespace THEN lstrip(Tail(t)) ELSE t

RECURSIVE rstrip(_)
rstrip(t) ==
    IF t # <<>> /\ t[Len(t)] \in Whitespace THEN rstrip(SubSeq(t, 1, Len(t) - 1)) ELSE t

\* str.strip
strip(t) == rstrip(lstrip(t))

\* the part of a text "." can match from its start: up to the first newline
FirstLine(t) ==
    LET nl == {i \in 1..Len(t) : t[i] = "\n"}
    IN  IF nl = {} THEN t ELSE SubSeq(t, 1, Minimum(nl) - 1)

\* str.lower, token by token
LowerToken(tok) ==
    CASE tok = "App.py" -> "app.py"
      [] tok = "LOGIC" -> "logic"
      [] tok = "UNKNOWN" -> "unknown"
      [] tok = " → Fix: " -> " → fix: "
      [] OTHER -> tok

lower(t) == [i \in 1..Len(t) |-> LowerToken(t[i])]

\* the tokens \d+ matches
Digits == {"0", "3", "7"}

-----------------------------------------------------------------------------
(* app/core/test_case_formatter.py *)

BUG_TYPES == {"LINTING", "SYNTAX", "LOGIC", "TYPE_ERROR", "IMPORT", "INDENTATION"}

\* where `(.+) line (\d+) → Fix: (.+)` can split the line L after ` error in `
FormatSplits(L) ==
    { j \in 4..(Len(L) - 3) :
        L[j] = " line " /\ L[j + 1] \in Digits /\ L[j + 2] = " → Fix: " }

\* re.match(pattern, text): the groups, the greedy (.+) of file_path taking the
\* last split of the first line
re_match(text) ==
    LET L == FirstLine(text)
    IN  IF Len(L) >= 2 /\ L[1] \in BUG_TYPES /\ L[2] = " error in " /\ FormatSplits(L) # {}
        THEN LET j == Maximum(FormatSplits(L))
             IN  [matched |-> TRUE, bug_type |-> L[1], file_path |-> SubSeq(L, 3, j - 1),
                  line |-> L[j + 1], fix |-> SubSeq(L, j + 3, Len(L))]
        ELSE [matched |-> FALSE]

\* what a call hands back: a value, or the exception it raised
Value(v) == [raised |-> "", null |-> FALSE, value |-> v]
Raise(e) == [raised |-> e, null |-> FALSE, value |-> <<>>]

\* the call handed back None
NullValue == [raised |-> "", null |-> TRUE, value |-> <<>>]

\* reconstruct_format
reconstruct_format(raw_output) ==
    LET m == re_match(strip(raw_output))
    IN  IF ~m.matched THEN Raise("ValueError")
        ELSE Value(<<m.bug_type, " error in ">> \o lower(m.file_path)
                   \o <<" line ", m.line, " → Fix: ">> \o m.fix)

-----------------------------------------------------------------------------
(* app/agents/nodes/failure_classifier.py *)

\* the record classify_failure falls back to
FallbackRecord(file_path, line_number) ==
    <<"UNKNOWN", " error in ", file_path, " line ", ToString(line_number),
      " → Fix: ", "manual review required">>

classify_failure_unguarded(file_path, line_number, reply) ==
    IF reply.raised # "" THEN Raise(reply.raised)
    ELSE IF reply.null THEN Raise("AttributeError")
    ELSE reconstruct_format(reply.value)

\* classify_failure; reply: what call_groq did, the text it returned (None when
\* the API answered with a null content) or the exception it raised
classify_failure(file_path, line_number, reply) ==
    LET formatted == IF reply.raised # "" THEN Raise(reply.raised)
                     ELSE IF reply.null THEN Raise("AttributeError")
                     ELSE reconstruct_format(reply.value)
    IN  IF formatted.raised # ""
        THEN Value(FallbackRecord(file_path, line_number))
        ELSE formatted

\* call_ai without OPENROUTER_API_KEY
MockReply == Value(<<"Mock response to: ", "Test failure detected">>)

\* the classifier's AI capability in a run: it answers in the grammar about the
\* failure it was given, or no API key is configured
ClassifierReply(f, ai_ok) ==
    IF ai_ok
    THEN Value(<<"LOGIC", " error in ", f.file, " line ", ToString(f.line),
                 " → Fix: ", "correct the assertion">>)
    ELSE MockReply

\* the file and line of the failure records a run of the pipeline can hold
FailureSites ==
    {[file |-> "unknown", line |-> 0]}
    \cup UNION { {e[i] : i \in 1..Len(e)} : e \in ErrorOutputs }

\* classify_failure in a run of the pipeline, tabulated over the failure
\* records and the two behaviours of the AI capability
Classified ==
    [f \in FailureSites, ai_ok \in BOOLEAN |->
        classify_failure(f.file, f.line, ClassifierReply(f, ai_ok)).value]

\* failure_classifier.run
node_failure_classifier(s, ai_ok) ==
    LET classified == [i \in 1..Len(s.failures) |->
                          Classified[[file |-> s.failures[i].file,
                                      line |-> s.failures[i].line], ai_ok]]
    IN  Returned([s EXCEPT !.classified_failures = classified,
                           !.logs = Append(@, "Classified " \o ToString(Len(classified))
                                              \o " failures")])

-----------------------------------------------------------------------------
(* app/agents/nodes/fix_generator.py *)

RECURSIVE split(_, _)
\* str.split(sep): the pieces of t around the tokens equal to sep
split(t, sep) ==
    LET at == {i \in 1..Len(t) : t[i] = sep}
    IN  IF at = {} THEN <<t>>
        ELSE <<SubSeq(t, 1, Minimum(at) - 1)>>
             \o split(SubSeq(t, Minimum(at) + 1, Len(t)), sep)

\* a file body the AI hands back: the prompt (the index of the classified
\* failure) it answers, whether ast.parse accepts it ("ok"), rejects it with a
\* SyntaxError ("error") or with another exception ("null_bytes"), and whether
\* it differs from the body the file had
Content(prompt, syntax, changed) ==
    [prompt |-> prompt, syntax |-> syntax, changed |-> changed]

\* generate_fix for the i-th classified failure; fix: what the AI does in this run
generate_fix(i, fix) ==
    IF fix = "error" THEN Raise("HTTPError")
    ELSE Value(Content(i, IF fix = "valid" THEN "ok" ELSE "error", TRUE))

\* fix_generator.run: the file path it takes out of a classification string,
\* failure_str.split(" error in ")[1].split(" line ")[0].strip(); no path when
\* the first split has one piece (IndexError)
ExtractedPath(failure_str) ==
    LET parts == split(failure_str, " error in ")
    IN  IF Len(parts) < 2 THEN [found |-> FALSE, file_path |-> <<>>]
        ELSE [found |-> TRUE, file_path |-> strip(split(parts[2], " line ")[1])]

\* ExtractedPath, tabulated over the classification strings of a run
FilePaths ==
    [failure_str \in {Classified[x] : x \in DOMAIN Classified} |->
        ExtractedPath(failure_str)]

\* fix_generator.run, the body of the loop for the i-th classified failure: the
\* fixes it appends. An IndexError of the split, a file that is not there and a
\* failing AI call append nothing.
GeneratedFix(failure_str, i, files, fix) ==
    LET path == FilePaths[failure_str]
        reply == generate_fix(i, fix)
    IN  IF ~path.found THEN <<>>
        ELSE IF path.file_path \notin files THEN <<>>
        ELSE IF reply.raised # "" THEN <<>>
        ELSE <<reply.value>>

RECURSIVE GeneratedFixes(_, _, _, _)
GeneratedFixes(cs, i, files, fix) ==
    IF i > Len(cs) THEN <<>>
    ELSE GeneratedFix(cs[i], i, files, fix) \o GeneratedFixes(cs, i + 1, files, fix)

\* fix_generator.run; files: the paths that exist under repo_path
node_fix_generator(s, files, fix) ==
    LET applied == GeneratedFixes(s.classified_failures, 1, files, fix)
    IN  Returned([s EXCEPT !.applied_fixes = applied,
                           !.logs = Append(@, "Generated and applied "
                                              \o ToString(Len(applied)) \o " fixes")])

-----------------------------------------------------------------------------
(* app/agents/nodes/fix_validator.py *)

\* validate_fix: ast.parse of the updated content
validate_fix(updated_content) ==
    CASE updated_content.syntax = "ok" -> "VALID"
      [] updated_content.syntax = "error" -> "INVALID: syntax error"
      [] OTHER -> "INVALID: " \o updated_content.syntax

\* fix_validator.run
node_fix_validator(s) ==
    LET results == [i \in 1..Len(s.applied_fixes) |-> validate_fix(s.applied_fixes[i])]
        all_valid == \A i \in 1..Len(results) : results[i] = "VALID"
    IN  Returned([s EXCEPT !.logs = Append(@,
            IF all_valid THEN "Validated " \o ToString(Len(results)) \o " fixes (all VALID)"
            ELSE "Validation failed for some fixes")])

-----------------------------------------------------------------------------
(* app/agents/graph.py, continued *)

\* node_git_wrapper: the message it hands to git_committer.run
commit_message(s) == "Auto-fix iteration " \o ToString(s.iteration)

git_committer_reraises(s, res) ==
    IF res = "OK"
    THEN Returned([s EXCEPT !.logs = Append(@, "Changes committed and pushed")])
    ELSE Raised(s)

\* git_committer.run after commit_fix ended with res (OK, or the exception raised)
git_committer_run(s, res) ==
    IF res = "OK"
    THEN Returned([s EXCEPT !.logs = Append(@, "Changes committed and pushed")])
    ELSE Returned([s EXCEPT !.logs = Append(@, "Commit failed: " \o res)])

\* node_push_branch after GitHubClient(repo_path).push_current_branch() ended with res
node_push_branch(s, res) ==
    IF res = "OK"
    THEN Returned([s EXCEPT !.logs = Append(@, "[push_branch] pushed successfully")])
    ELSE Returned([s EXCEPT !.logs = Append(@, "[push_branch] error: " \o res)])

-----------------------------------------------------------------------------
(* app/integrations/ci_provider.py and app/agents/nodes/ci_monitor.py *)

\* what requests.get, raise_for_status and response.json() do in one call of
\* the provider: one of the three exceptions get_latest_workflow_status
\* catches, another exception of the transport (TooManyRedirects) or of the
\* parse of the body (JSONDecodeError), or a body with its workflow runs
TransportErrors == {"ConnectionError", "Timeout", "HTTPError"}
OtherErrors == {"TooManyRedirects", "JSONDecodeError"}
RunStatuses == {"completed", "in_progress", "queued"}
RunConclusions == {"success", "failure", "cancelled", None}

ProviderResponses ==
    [http : TransportErrors \cup OtherErrors, runs : {<<>>}]
    \cup [http : {"ok"}, runs : {<<>>}]
    \cup { [http |-> "ok", runs |-> <<r>>] :
             r \in [status : RunStatuses, conclusion : RunConclusions] }

\* CIProvider.get_latest_workflow_status
get_latest_workflow_status(response) ==
    IF response.http \in TransportErrors
    THEN [raised |-> "CIProviderError", status |-> "", conclusion |-> None]
    ELSE IF response.http # "ok"
    THEN [raised |-> response.http, status |-> "", conclusion |-> None]
    ELSE IF response.runs = <<>>
    THEN [raised |-> "", status |-> "none", conclusion |-> None]
    ELSE [raised |-> "", status |-> response.runs[1].status,
          conclusion |-> response.runs[1].conclusion]

\* monitor_ci
monitor_ci(response) ==
    LET raw == get_latest_workflow_status(response)
        completed == raw.status = "completed"
    IN  IF raw.raised = "CIProviderError"
        THEN [raised |-> "", completed |-> FALSE, success |-> FALSE]
        ELSE IF raw.raised # ""
        THEN [raised |-> raw.raised, completed |-> FALSE, success |-> FALSE]
        ELSE [raised |-> "", completed |-> completed,
              success |-> completed /\ raw.conclusion = "success"]

-----------------------------------------------------------------------------
(* app/agents/graph.py, continued *)

node_monitor_ci_status_only(s, response) ==
    LET result == monitor_ci(response)
        logged == [s EXCEPT !.logs = Append(@, "[monitor_ci] completed="
                       \o ToString(result.completed) \o ", success="
                       \o ToString(result.success))]
    IN  IF result.raised # "" THEN Raised(s)
        ELSE Returned([logged EXCEPT
                 !.ci_status = IF result.success THEN "passed" ELSE "failed"])

\* node_monitor_ci
node_monitor_ci(s, response) ==
    LET result == monitor_ci(response)
        logged == [s EXCEPT !.logs = Append(@, "[monitor_ci] completed="
                       \o ToString(result.completed) \o ", success="
                       \o ToString(result.success))]
    IN  IF result.raised # "" THEN Raised(s)
        ELSE IF result.success
        THEN Returned([logged EXCEPT !.ci_status = "passed",
                                     !.final_status = "fixed",
                                     !.end_time = "set"])
        ELSE Returned([logged EXCEPT !.ci_status = "failed"])

fast_forward_skipped(m, n) == m

RECURSIVE fast_forward(_, _)
\* node_retry_decision: for _ in range(iteration): manager.track_attempt()
fast_forward(m, n) == IF n <= 0 THEN m ELSE fast_forward(track_attempt(m), n - 1)

node_retry_decision_fresh_manager(s) ==
    IF should_retry(RetryManager(s.max_retries), "failure")
    THEN Returned([s EXCEPT !.iteration = @ + 1])
    ELSE Returned([s EXCEPT !.final_status = "failed", !.end_time = "set"])

node_retry_decision_counts_refusals(s) ==
    Returned([s EXCEPT !.iteration = @ + 1,
                       !.final_status = IF s.iteration < s.max_retries THEN @ ELSE "failed"])

\* node_retry_decision
node_retry_decision(s) ==
    LET manager == fast_forward(RetryManager(s.max_retries), s.iteration)
        should == should_retry(manager, "failure")
        new_iteration == s.iteration + 1
    IN  IF should
        THEN Returned([s EXCEPT !.iteration = new_iteration,
                 !.logs = Append(@, "[retry_decision] retrying (attempt "
                     \o ToString(new_iteration) \o "/" \o ToString(s.max_retries) \o ")")])
        ELSE Returned([s EXCEPT !.final_status = "failed",
                 !.end_time = "set",
                 !.logs = Append(@, "[retry_decision] max retries exceeded ("
                     \o ToString(s.iteration) \o "/" \o ToString(s.max_retries) \o ")")])

after_tests_by_final_status(s) ==
    IF s.final_status = "fixed" THEN END ELSE "failure_classifier"

\* after_tests
after_tests(s) == IF s.ci_status = "passed" THEN END ELSE "failure_classifier"

\* after_ci
after_ci(s) == IF s.ci_status = "passed" THEN END ELSE "retry_decision"

after_retry_by_ci_status(s) == IF s.ci_status = "failed" THEN END ELSE "run_tests"

\* after_retry
after_retry(s) == IF s.final_status = "failed" THEN END ELSE "run_tests"

Successor_without_validation(node, s) ==
    CASE node = "clone_repo" -> "run_tests"
      [] node = "run_tests" -> after_tests(s)
      [] node = "failure_classifier" -> "fix_generator"
      [] node = "fix_generator" -> "git_committer"
      [] node = "fix_validator" -> "git_committer"
      [] node = "git_committer" -> "push_branch"
      [] node = "push_branch" -> "monitor_ci"
      [] node = "monitor_ci" -> after_ci(s)
      [] node = "retry_decision" -> after_retry(s)

\* compile: the edge the executor follows out of a node that returned
Successor(node, s) ==
    CASE node = "clone_repo" -> "run_tests"
      [] node = "run_tests" -> after_tests(s)
      [] node = "failure_classifier" -> "fix_generator"
      [] node = "fix_generator" -> "fix_validator"
      [] node = "fix_validator" -> "git_committer"
      [] node = "git_committer" -> "push_branch"
      [] node = "push_branch" -> "monitor_ci"
      [] node = "monitor_ci" -> after_ci(s)
      [] node = "retry_decision" -> after_retry(s)

\* one step of the compiled graph: the node at pc ran and handed back `result`
Step(node, result) ==
    /\ pc = node
    /\ state' = result.state
    /\ pc' = IF result.raised THEN RAISED ELSE Successor(node, result.state)
    /\ runs' = [runs EXCEPT ![node] = @ + 1]
    /\ prev' = [node |-> node, raised |-> result.raised]
    /\ env' = env

\* the directory the nodes work in: state.get("repo_path") or state["repo_url"]
PathExists == state.repo_path # "" \/ env.url_is_dir

\* the collaborators of one run: whether the clone succeeds, whether repo_url
\* names a local directory, the `path:line: message` lines of the test output,
\* whether the AI answers in the grammar, whether app.py is in the working
\* tree, what the AI's replacement is, whether git commands work
Envs ==
    { e \in [clone_ok : BOOLEAN, url_is_dir : BOOLEAN, errors : ErrorOutputs,
             ai_ok : BOOLEAN, file_exists : BOOLEAN,
             fix : {"valid", "invalid", "error"}, git_ok : BOOLEAN] :
        /\ e.clone_ok => ~e.url_is_dir
        /\ ~e.file_exists => e.fix = "valid"
        /\ e.errors = <<>> => ~e.file_exists }

\* the paths of the working tree that os.path.exists finds
WorkingTreeFiles == IF env.file_exists /\ PathExists THEN {<<"app.py">>} ELSE {}

\* main.run_pipeline: initial_state, with max_retries any value up to MaxRetries
InitialState(n) ==
    [repo_path |-> "", iteration |-> 0, max_retries |-> n, failures |-> <<>>,
     classified_failures |-> <<>>, applied_fixes |-> <<>>, ci_status |-> "pending",
     logs |-> <<"Pipeline started">>, end_time |-> "", final_status |-> None]

PipelineStart ==
    /\ pc = "clone_repo"
    /\ \E n \in 0..MaxRetries : state = InitialState(n)
    /\ env \in Envs
    /\ runs = [n \in Nodes |-> 0]
    /\ prev = [node |-> "START", raised |-> FALSE]
    /\ \E a \in {"main", "fix-a"}, t \in {CleanTree, [CleanTree EXCEPT !.staged = TRUE]},
          l \in {"tests", "none", "empty_dir"} :
           repo = [valid |-> FALSE, active |-> a, heads |-> {"main", a}, tree |-> t,
                   tests |-> l, commits |-> <<>>, pushes |-> <<>>]
    /\ ret = NoGitCall

CloneRepo ==
    /\ Step("clone_repo", node_clone_repo(state, env.clone_ok))
    /\ repo' = [repo EXCEPT !.valid = env.clone_ok]
    /\ ret' = ret

\* node_run_tests with execute_tests and run_pytest_in_docker on the directory
\* the nodes work in
RunTests ==
    LET path == IF PathExists THEN "ok" ELSE "missing"
    IN  \E proc \in SuiteOutcomes(repo.tests \in {"tests", "root_tests"},
                                  needs_fixture(path, repo.tests)) :
            LET raw == run_pytest_in_docker(path, repo.tests, proc)
                result == execute_tests(raw)
            IN  /\ Step("run_tests",
                        IF result.raised # "" THEN Raised(state)
                        ELSE node_run_tests(state, result.passed, env.errors))
                /\ repo' = IF raw.fixture
                           THEN [repo EXCEPT !.tests = "tests", !.tree.untracked = TRUE]
                           ELSE repo
                /\ ret' = ret

FailureClassifier ==
    /\ Step("failure_classifier", node_failure_classifier(state, env.ai_ok))
    /\ UNCHANGED <<repo, ret>>

FixGenerator ==
    /\ Step("fix_generator", node_fix_generator(state, WorkingTreeFiles, env.fix))
    /\ repo' = [repo EXCEPT !.tree.unstaged = @ \/ Len(state'.applied_fixes) > 0]
    /\ ret' = ret

FixValidator ==
    /\ Step("fix_validator", node_fix_validator(state))
    /\ UNCHANGED <<repo, ret>>

\* node_git_wrapper, git_committer.run and commit_fix
GitCommitter ==
    LET out == commit_fix(repo, commit_message(state), ~env.git_ok)
    IN  /\ Step("git_committer", git_committer_run(state, out.res))
        /\ repo' = out.repo
        /\ ret' = Outcome("commit_fix", repo, out)

\* node_push_branch: GitHubClient(repo_path).push_current_branch()
PushBranch ==
    LET out == IF open_client(repo) # "OK"
               THEN [repo |-> repo, res |-> open_client(repo)]
               ELSE push_current_branch(repo, ~env.git_ok)
    IN  /\ Step("push_branch", node_push_branch(state, out.res))
        /\ repo' = out.repo
        /\ ret' = Outcome("push_current_branch", repo, out)

MonitorCI ==
    /\ \E response \in ProviderResponses :
           Step("monitor_ci", node_monitor_ci(state, response))
    /\ UNCHANGED <<repo, ret>>

RetryDecision ==
    /\ Step("retry_decision", node_retry_decision(state))
    /\ UNCHANGED <<repo, ret>>

-----------------------------------------------------------------------------------------------------------------------------------------------------
(* SpecCalls: the functions of the repair pipeline and of the CI poller, each
   called on inputs of a bounded set *)

NoFnCall == [fn |-> "none"]

CallsIdle == call = NoFnCall

Conforming(bug_type, file_path, line, fix) ==
    <<bug_type, " error in ", file_path, " line ", line, " → Fix: ">> \o fix

\* texts the AI capability answers a classification prompt with
AITexts ==
    { Conforming(k, f, d, <<"use ==">>) :
        k \in {"LOGIC", "SYNTAX", "UNKNOWN", "logic"}, f \in {"App.py", "app.py"},
        d \in {"3", "three"} }
    \cup { <<"\n", " ">> \o Conforming("LOGIC", "App.py", "3", <<"use ==">>)
              \o <<"\n", "Explanation">>,
           Conforming("IMPORT", "App.py", "7", <<" ", "\n", "use ==">>),
           Conforming("LOGIC", "a.py", "3", <<"see", " line ", "7", " → Fix: ", "use ==">>),
           <<"LOGIC", " error in ", "App.py", " line ", "3">>,
           <<"Sure:", " ">> \o Conforming("LOGIC", "App.py", "3", <<"use ==">>),
           MockReply.value,
           <<>> }

\* what call_groq does: a text, a null content, or an exception
AIReplies == {Value(t) : t \in AITexts} \cup {NullValue, Raise("HTTPError"), Raise("Timeout")}

\* the file and line of the failure records handed to classify_failure
FailureFiles == {"app.py", "App.py", "unknown"}
FailureLines == {0, 3}

CallReconstructFormat ==
    \E raw \in AITexts :
        call' = [fn |-> "reconstruct_format", raw_output |-> raw,
                 result |-> reconstruct_format(raw)]

CallClassifyFailure ==
    \E f \in FailureFiles, n \in FailureLines, reply \in AIReplies :
        call' = [fn |-> "classify_failure", file_path |-> f, line_number |-> n,
                 reply |-> reply, result |-> classify_failure(f, n, reply)]

\* validate_fix on a fix generated for a failure classified as `kind`
CallValidateFix ==
    \E syntax \in {"ok", "error", "null_bytes"}, changed \in BOOLEAN,
       kind \in {"LOGIC", "SYNTAX", "UNKNOWN"} :
        call' = [fn |-> "validate_fix", kind |-> kind,
                 updated_content |-> Content(1, syntax, changed),
                 result |-> validate_fix(Content(1, syntax, changed))]

CallMonitorCI ==
    \E response \in ProviderResponses :
        call' = [fn |-> "monitor_ci", response |-> response,
                 result |-> monitor_ci(response)]

CallRunPytestInDocker ==
    \E path \in PathStates, layout \in Layouts, proc \in ProcessOutcomes :
        call' = [fn |-> "run_pytest_in_docker", path |-> path, layout |-> layout,
                 proc |-> proc, result |-> run_pytest_in_docker(path, layout, proc)]

-----------------------------------------------------------------------------
(* main.py: create_run, run_pipeline, ConnectionManager.send_to_run and
   websocket_endpoint, for the runs of Runs. Code between two awaits runs in one
   step of the event loop; `await connection.send_json(update)` is where a
   send_to_run can be suspended while the endpoints of the observers and the
   tasks of the other runs go on. *)

\* the run identifiers create_run has handed out (uuid4: never equal)
Runs == {"A", "B"}

Observers == {"a", "b", "c"}

\* list.remove(x): the first occurrence of x is taken out
RECURSIVE remove(_, _)
remove(l, x) ==
    IF l = <<>> THEN <<>>
    ELSE IF Head(l) = x THEN Tail(l)
    ELSE <<Head(l)>> \o remove(Tail(l), x)

Range(l) == {l[i] : i \in 1..Len(l)}

\* send_to_run, the second loop: every failed connection still in the list is removed
RECURSIVE prune(_, _)
prune(l, disconnected) ==
    IF disconnected = <<>> THEN l
    ELSE prune(IF Head(disconnected) \in Range(l) THEN remove(l, Head(disconnected)) ELSE l,
               Tail(disconnected))

\* websocket_connections without an entry for a run, and with a fresh one
NoSubscribers == [registered |-> FALSE, list |-> <<>>]

\* the observers that are subscribed to a run (wc: its entry) and can be reached
Reachable(wc, sk) == {o \in Observers : wc.registered /\ o \in Range(wc.list) /\ sk[o] = "open"}

NoBroadcast ==
    [pc |-> "idle", kind |-> "none", node |-> 0, idx |-> 0, cur |-> "none",
     disconnected |-> <<>>, detached |-> FALSE, delivered |-> {}, steady |-> {}]

\* the list the first loop of send_to_run iterates: the list object it took from
\* websocket_connections[run_id]. The disconnect handler pops a list only when it
\* is empty, and a list popped is never appended to: once popped (detached) the
\* iterated list is empty, whatever list the run has got since.
Iterated(b, wc) == IF b.detached \/ ~wc.registered THEN <<>> ELSE wc.list

\* send_to_run from the head of the first loop to the next await, or through the
\* second loop to its end: the coroutine (suspended in a send, returned, or ended
\* by the KeyError of websocket_connections[run_id]) and the subscriber list
Advance(b, wc) ==
    LET l == Iterated(b, wc)
    IN  IF b.idx < Len(l)
        THEN [bcast |-> [b EXCEPT !.pc = "sending", !.idx = @ + 1, !.cur = l[b.idx + 1]],
              wc |-> wc]
        ELSE IF b.disconnected = <<>>
        THEN [bcast |-> [b EXCEPT !.pc = "returned", !.cur = "none"], wc |-> wc]
        ELSE IF ~wc.registered
        THEN [bcast |-> [b EXCEPT !.pc = "KeyError", !.cur = "none"], wc |-> wc]
        ELSE [bcast |-> [b EXCEPT !.pc = "returned", !.cur = "none"],
              wc |-> [wc EXCEPT !.list = prune(@, b.disconnected)]]

\* send_to_run(run_id, update) from its entry
Enter(update, wc, sk) ==
    IF ~wc.registered
    THEN [bcast |-> [NoBroadcast EXCEPT !.pc = "returned", !.kind = update.type,
                                        !.node = update.node],
          wc |-> wc]
    ELSE Advance([NoBroadcast EXCEPT !.kind = update.type, !.node = update.node,
                                     !.steady = Reachable(wc, sk)], wc)

\* send_to_run resumed after `await connection.send_json(update)`: the send went
\* through, or raised because the websocket is broken or closed
Resume(b, wc, sk) ==
    IF sk[b.cur] = "open"
    THEN Advance([b EXCEPT !.delivered = @ \cup {b.cur}], wc)
    ELSE Advance([b EXCEPT !.disconnected = Append(@, b.cur)], wc)

subscribers_of_first_run(wcs, run_id) == wcs["A"]

\* websocket_connections[run_id], no entry read as an empty one
subscribers(wcs, run_id) == wcs[run_id]

update_countdown(run) == [type |-> "pipeline_update", node |-> MaxUpdates - run.sent]

\* run_pipeline: the pipeline_update of the node that has just completed; node:
\* its place in the order of completion
update_of(run) == [type |-> "pipeline_update", node |-> run.sent + 1]

\* run_pipeline: the final update
pipeline_complete == [type |-> "pipeline_complete", node |-> 0]

\* run_pipeline after a step of send_to_run. When the call has returned the loop
\* waits for the next node, or the function is over after pipeline_complete. When
\* it raised KeyError the except clause sets the entry FAILED, appends the error
\* to the log buffer and sends pipeline_error, which goes to nobody: the run is
\* not in websocket_connections.
AfterSend(run, b) ==
    IF b.pc = "sending" THEN run
    ELSE IF b.pc = "KeyError"
    THEN [run EXCEPT !.status = "FAILED", !.phase = "done", !.logs = @ + 1,
                     !.finals = @ + 1]
    ELSE IF b.kind = "pipeline_complete" THEN [run EXCEPT !.phase = "done"]
    ELSE run

\* create_run: the registry entry of a new run, with the lines of its log
\* buffer counted (logs), the pipeline_update events (sent) and the final events
\* (finals) its task has handed to send_to_run, and the final verdict of its
\* graph (verdict) once the stream is over
NewRun ==
    [phase |-> "pending", status |-> "PENDING", outcome |-> "none",
     verdict |-> "none", sent |-> 0, finals |-> 0, logs |-> 1]

\* no run of that identifier
NoRun == [phase |-> "none"]

\* the steady observers of a broadcast: reached from its start on
Steady(b, wc, sk) == IF b.pc = "sending" THEN b.steady \cap Reachable(wc, sk) ELSE b.steady

\* websocket_endpoint: a subscribe message for run r (observers name the runs
\* that exist; the list is kept within MaxSubs)
Subscribe(o, r) ==
    LET wc == [registered |-> TRUE, list |-> Append(websocket_connections[r].list, o)]
    IN  /\ sock[o] = "open"
        /\ pipeline_runs[r].phase # "none"
        /\ Len(websocket_connections[r].list) < MaxSubs
        /\ websocket_connections' = [websocket_connections EXCEPT ![r] = wc]
        /\ bcast' = [bcast EXCEPT ![r].steady = Steady(bcast[r], wc, sock)]
        /\ UNCHANGED <<sock, pipeline_runs, received>>

\* the peer of an observer goes away: sends to it raise from now on
Fail(o) ==
    /\ sock[o] = "open"
    /\ sock' = [sock EXCEPT ![o] = "broken"]
    /\ bcast' = [r \in Runs |->
                    [bcast[r] EXCEPT !.steady = Steady(bcast[r], websocket_connections[r], sock')]]
    /\ UNCHANGED <<websocket_connections, pipeline_runs, received>>

\* websocket_endpoint, the handler of WebSocketDisconnect for one entry of
\* websocket_connections: the websocket is removed, an empty list is popped
Unsubscribed(wc, o) ==
    LET conns == IF o \in Range(wc.list) THEN remove(wc.list, o) ELSE wc.list
    IN  IF ~wc.registered THEN wc
        ELSE IF conns = <<>> THEN NoSubscribers
        ELSE [wc EXCEPT !.list = conns]

\* websocket_endpoint: receive_text raised WebSocketDisconnect or another exception
Disconnect(o) ==
    /\ sock[o] \in {"open", "broken"}
    /\ sock' = [sock EXCEPT ![o] = "closed"]
    /\ websocket_connections' =
           [r \in Runs |-> Unsubscribed(websocket_connections[r], o)]
    /\ bcast' = [r \in Runs |->
           [bcast[r] EXCEPT
               !.detached = @ \/ /\ bcast[r].pc = "sending"
                                 /\ websocket_connections[r].registered
                                 /\ ~websocket_connections'[r].registered,
               !.steady = Steady(bcast[r], websocket_connections'[r], sock')]]
    /\ UNCHANGED <<pipeline_runs, received>>

\* run_pipeline from the start of the task to its first await: the entry is
\* RUNNING and the graph is compiled, or compile_graph raises and the task
\* returns with the entry FAILED
TaskStarted(r) ==
    /\ pipeline_runs[r].phase = "pending"
    /\ \E compiled \in BOOLEAN :
           pipeline_runs' = [pipeline_runs EXCEPT ![r] =
               IF compiled
               THEN [@ EXCEPT !.phase = "streaming", !.status = "RUNNING"]
               ELSE [@ EXCEPT !.phase = "done", !.status = "FAILED", !.outcome = "FAILED"]]
    /\ UNCHANGED <<websocket_connections, sock, bcast, received>>

\* run_pipeline: graph.astream hands over the update of a node; the registry
\* entry and the log buffer are updated and pipeline_update is sent
NodeCompleted(r) ==
    LET out == Enter(update_of(pipeline_runs[r]), subscribers(websocket_connections, r), sock)
    IN  /\ pipeline_runs[r].phase = "streaming"
        /\ bcast[r].pc \in {"idle", "returned"}
        /\ pipeline_runs[r].sent < MaxUpdates
        /\ bcast' = [bcast EXCEPT ![r] = out.bcast]
        /\ websocket_connections' = [websocket_connections EXCEPT ![r] = out.wc]
        /\ pipeline_runs' = [pipeline_runs EXCEPT ![r] =
               AfterSend([@ EXCEPT !.sent = @ + 1, !.logs = @ + 1], out.bcast)]
        /\ UNCHANGED <<sock, received>>

\* the final_status and ci_status a run of the compiled graph ends with
FinalStates ==
    {[final_status |-> "passed", ci_status |-> "passed"],
     [final_status |-> "fixed", ci_status |-> "passed"],
     [final_status |-> "failed", ci_status |-> "failed"]}

\* run_pipeline: the final verdict it reads from the merged state
final_status_of(final_state) ==
    IF final_state.final_status # None THEN final_state.final_status
    ELSE IF final_state.ci_status = "passed" THEN "passed"
    ELSE "failed"

\* run_pipeline: the status it gives the registry entry for a verdict
run_status(final_status) == IF final_status = "failed" THEN "FAILED" ELSE "COMPLETED"

\* run_pipeline: the stream is over; the entry gets its final status and
\* pipeline_complete is sent
StreamEnded(r) ==
    LET out == Enter(pipeline_complete, subscribers(websocket_connections, r), sock)
    IN  /\ pipeline_runs[r].phase = "streaming"
        /\ bcast[r].pc \in {"idle", "returned"}
        /\ bcast' = [bcast EXCEPT ![r] = out.bcast]
        /\ websocket_connections' = [websocket_connections EXCEPT ![r] = out.wc]
        /\ \E final \in FinalStates :
               LET status == run_status(final_status_of(final))
               IN  pipeline_runs' = [pipeline_runs EXCEPT ![r] =
                       AfterSend([@ EXCEPT !.status = status, !.outcome = status,
                                           !.verdict = final_status_of(final),
                                           !.phase = "completing", !.finals = @ + 1],
                                 out.bcast)]
        /\ UNCHANGED <<sock, received>>

\* the event loop resumes the send_to_run of run r when the send it awaits has
\* ended; the observer has got the update if the send went through
SendEnded(r) ==
    LET out == Resume(bcast[r], subscribers(websocket_connections, r), sock)
        o == bcast[r].cur
    IN  /\ bcast[r].pc = "sending"
        /\ bcast' = [bcast EXCEPT ![r] = out.bcast]
        /\ websocket_connections' = [websocket_connections EXCEPT ![r] = out.wc]
        /\ pipeline_runs' = [pipeline_runs EXCEPT ![r] = AfterSend(@, out.bcast)]
        /\ received' = IF sock[o] = "open" /\ bcast[r].kind = "pipeline_update"
                       THEN [received EXCEPT ![o][r] = bcast[r].node]
                       ELSE received
        /\ UNCHANGED sock

\* one run has been created and no observer has subscribed yet
WSStart ==
    /\ websocket_connections = [r \in Runs |-> NoSubscribers]
    /\ sock = [o \in Observers |-> "open"]
    /\ bcast = [r \in Runs |-> NoBroadcast]
    /\ pipeline_runs = [r \in Runs |-> IF r = "A" THEN NewRun ELSE NoRun]
    /\ received = [o \in Observers |-> [r \in Runs |-> 0]]

\* two runs have been created; one observer is connected
RunsStart ==
    /\ websocket_connections = [r \in Runs |-> NoSubscribers]
    /\ sock = [o \in Observers |-> IF o = "a" THEN "open" ELSE "closed"]
    /\ bcast = [r \in Runs |-> NoBroadcast]
    /\ pipeline_runs = [r \in Runs |-> NewRun]
    /\ received = [o \in Observers |-> [r \in Runs |-> 0]]

WSIdle ==
    /\ websocket_connections = [r \in Runs |-> NoSubscribers]
    /\ sock = [o \in Observers |-> "closed"]
    /\ bcast = [r \in Runs |-> NoBroadcast]
    /\ pipeline_runs = [r \in Runs |-> NoRun]
    /\ received = [o \in Observers |-> [r \in Runs |-> 0]]

-----------------------------------------------------------------------------
(* app/agents/graph_builder.py: the graph orchestrator.run_pipeline invokes *)

\* build_graph: the nodes it registers
BuiltNodes ==
    {"repo_analyzer", "test_discovery", "test_executor", "failure_classifier",
     "fix_generator", "fix_validator", "git_committer", "ci_monitor",
     "reflection_agent"}

decide_to_reflection(s) ==
    IF s.ci_status = "PASSED" \/ s.iteration >= s.max_retries THEN END ELSE "reflection"

\* build_graph: decide, the conditional edge out of fix_validator
decide(s) ==
    IF s.ci_status = "PASSED" THEN END
    ELSE IF s.iteration >= s.max_retries THEN END
    ELSE "reflection_agent"

\* build_graph: the edge the executor follows out of a node that returned;
\* git_committer and ci_monitor are registered without an edge
BuiltSuccessor(node, s) ==
    CASE node = "repo_analyzer" -> "test_discovery"
      [] node = "test_discovery" -> "test_executor"
      [] node = "test_executor" -> "failure_classifier"
      [] node = "failure_classifier" -> "fix_generator"
      [] node = "fix_generator" -> "fix_validator"
      [] node = "fix_validator" -> decide(s)
      [] node = "reflection_agent" -> "test_executor"
      [] OTHER -> END

\* what a node that returns normally does to the fields decide reads: only
\* ci_monitor.run writes one of them (READY_FOR_COMMIT becomes PASSED); no
\* node assigns iteration or max_retries
built_node(node, s) ==
    IF node = "ci_monitor" /\ s.ci_status = "READY_FOR_COMMIT"
    THEN [s EXCEPT !.ci_status = "PASSED"]
    ELSE s

\* the ci_status values a caller of orchestrator.run_pipeline hands in
BuiltStatuses == {"pending", "FAILED", "READY_FOR_COMMIT", "PASSED"}

\* orchestrator.run_pipeline: graph.invoke(state) on the caller's state
BuiltStart ==
    \E i \in 0..MaxRetries, n \in 0..MaxRetries, c \in BuiltStatuses :
        built = [pc |-> "repo_analyzer", iteration |-> i, max_retries |-> n,
                 ci_status |-> c]

BuiltIdle == built = [pc |-> "IDLE"]

\* one step of the executor: the node at built.pc ran and returned
BuiltStep ==
    /\ built.pc \in BuiltNodes
    /\ LET s == built_node(built.pc, built)
       IN  built' = [s EXCEPT !.pc = BuiltSuccessor(built.pc, s)]

\* the trace lines the nodes of a run append to the logs list of the state
TraceLines == {"Successfully cloned", "[run_tests] passed=FALSE", "Classified 1 failures"}

\* the logs lists of a run's updates: every node resends the list it was given
\* with its own line appended
LogLists ==
    {l \in UNION {[1..n -> TraceLines] : n \in 1..Cardinality(TraceLines)} :
        \A i, j \in DOMAIN l : l[i] = l[j] => i = j}

\* datetime.utcnow().isoformat() at the k-th update
Timestamp(k) == "t" \o ToString(k)

\* run_pipeline: the line it stores for a trace line
Stamped(ts, log) == "[" \o ts \o "] " \o log

RECURSIVE merge_logs(_, _, _)
\* run_pipeline, "Merge logs": for log in new_logs: if log not in
\* pipeline_logs[run_id]: append the stamped line
merge_logs(buffer, new_logs, ts) ==
    IF new_logs = <<>> THEN buffer
    ELSE merge_logs(IF Head(new_logs) \notin Range(buffer)
                    THEN Append(buffer, Stamped(ts, Head(new_logs)))
                    ELSE buffer,
                    Tail(new_logs), ts)

RECURSIVE merge_updates(_, _, _)
\* run_pipeline: the log buffer after the updates k.. of a run whose nodes
\* produced the lines of l one after the other
merge_updates(buffer, l, k) ==
    IF k > Len(l) THEN buffer
    ELSE merge_updates(merge_logs(buffer, SubSeq(l, 1, k), Timestamp(k)), l, k + 1)

\* create_run and run_pipeline: the log buffer of a run after its updates
CallMergeLogs ==
    \E l \in LogLists :
        call' = [fn |-> "merge_logs", lines |-> l,
                 result |-> merge_updates(<<Stamped(Timestamp(0), "Pipeline initialized")>>, l, 1)]

\* the states the conditional edge functions of the two graphs are called on
EdgeStates ==
    [ci_status : {"pending", "passed", "failed", "PASSED"},
     final_status : {None, "passed", "fixed", "failed"},
     iteration : 0..MaxRetries, max_retries : 0..MaxRetries]

CallAfterTests ==
    \E s \in EdgeStates :
        call' = [fn |-> "after_tests", s |-> s, result |-> after_tests(s)]

CallAfterCI ==
    \E s \in EdgeStates :
        call' = [fn |-> "after_ci", s |-> s, result |-> after_ci(s)]

CallAfterRetry ==
    \E s \in EdgeStates :
        call' = [fn |-> "after_retry", s |-> s, result |-> after_retry(s)]

CallDecide ==
    \E s \in EdgeStates :
        call' = [fn |-> "decide", s |-> s, result |-> decide(s)]

-----------------------------------------------------------------------------
(* Idle values of the pipeline's variables *)

PipelineIdle ==
    /\ pc = "IDLE"
    /\ state = InitialState(0)
    /\ env = [clone_ok |-> TRUE]
    /\ runs = [n \in Nodes |-> 0]
    /\ prev = [node |-> "START", raised |-> FALSE]

GitIdle ==
    /\ repo = [valid |-> FALSE]
    /\ ret = NoGitCall

pvars == <<pc, state, env, runs, prev>>
gvars == <<repo, ret>>
rvars == <<rm, rmret>>
cvars == <<call>>
wvars == <<websocket_connections, sock, bcast, pipeline_runs, received>>
bvars == <<built>>

-----------------------------------------------------------------------------
(* Specifications *)

Next ==
    \/ CloneRepo /\ UNCHANGED <<rvars, cvars, wvars, bvars>>
    \/ RunTests /\ UNCHANGED <<rvars, cvars, wvars, bvars>>
    \/ FailureClassifier /\ UNCHANGED <<rvars, cvars, wvars, bvars>>
    \/ FixGenerator /\ UNCHANGED <<rvars, cvars, wvars, bvars>>
    \/ FixValidator /\ UNCHANGED <<rvars, cvars, wvars, bvars>>
    \/ GitCommitter /\ UNCHANGED <<rvars, cvars, wvars, bvars>>
    \/ PushBranch /\ UNCHANGED <<rvars, cvars, wvars, bvars>>
    \/ MonitorCI /\ UNCHANGED <<rvars, cvars, wvars, bvars>>
    \/ RetryDecision /\ UNCHANGED <<rvars, cvars, wvars, bvars>>

Init == PipelineStart /\ RetryIdle /\ CallsIdle /\ WSIdle /\ BuiltIdle

Spec == Init /\ [][Next]_vars

\* the executor runs the next node whenever there is one
FairSpec == Spec /\ WF_vars(Next)

NextGit ==
    \/ CallCreateBranch /\ UNCHANGED <<pvars, rvars, cvars, wvars, bvars>>
    \/ CallCommitAll /\ UNCHANGED <<pvars, rvars, cvars, wvars, bvars>>
    \/ CallPushCurrentBranch /\ UNCHANGED <<pvars, rvars, cvars, wvars, bvars>>
    \/ CallCommitFix /\ UNCHANGED <<pvars, rvars, cvars, wvars, bvars>>
    \/ EditTree /\ UNCHANGED <<pvars, rvars, cvars, wvars, bvars>>
    \/ Checkout /\ UNCHANGED <<pvars, rvars, cvars, wvars, bvars>>

InitGit == GitStart /\ PipelineIdle /\ RetryIdle /\ CallsIdle /\ WSIdle /\ BuiltIdle

SpecGit == InitGit /\ [][NextGit]_vars

NextRetry ==
    \/ CallTrackAttempt /\ UNCHANGED <<pvars, gvars, cvars, wvars, bvars>>
    \/ CallShouldRetry /\ UNCHANGED <<pvars, gvars, cvars, wvars, bvars>>
    \/ CallHasExceeded /\ UNCHANGED <<pvars, gvars, cvars, wvars, bvars>>

InitRetry == RetryStart /\ PipelineIdle /\ GitIdle /\ CallsIdle /\ WSIdle /\ BuiltIdle

SpecRetry == InitRetry /\ [][NextRetry]_vars

NextCalls ==
    \/ CallReconstructFormat /\ UNCHANGED <<pvars, gvars, rvars, wvars, bvars>>
    \/ CallClassifyFailure /\ UNCHANGED <<pvars, gvars, rvars, wvars, bvars>>
    \/ CallValidateFix /\ UNCHANGED <<pvars, gvars, rvars, wvars, bvars>>
    \/ CallMonitorCI /\ UNCHANGED <<pvars, gvars, rvars, wvars, bvars>>
    \/ CallRunPytestInDocker /\ UNCHANGED <<pvars, gvars, rvars, wvars, bvars>>
    \/ CallAfterTests /\ UNCHANGED <<pvars, gvars, rvars, wvars, bvars>>
    \/ CallAfterCI /\ UNCHANGED <<pvars, gvars, rvars, wvars, bvars>>
    \/ CallAfterRetry /\ UNCHANGED <<pvars, gvars, rvars, wvars, bvars>>
    \/ CallDecide /\ UNCHANGED <<pvars, gvars, rvars, wvars, bvars>>
    \/ CallMergeLogs /\ UNCHANGED <<pvars, gvars, rvars, wvars, bvars>>

InitCalls == CallsIdle /\ PipelineIdle /\ GitIdle /\ RetryIdle /\ WSIdle /\ BuiltIdle

SpecCalls == InitCalls /\ [][NextCalls]_vars

NextWS ==
    \/ (\E o \in Observers, r \in Runs : Subscribe(o, r))
           /\ UNCHANGED <<pvars, gvars, rvars, cvars, bvars>>
    \/ (\E o \in Observers : Fail(o)) /\ UNCHANGED <<pvars, gvars, rvars, cvars, bvars>>
    \/ (\E o \in Observers : Disconnect(o)) /\ UNCHANGED <<pvars, gvars, rvars, cvars, bvars>>
    \/ (\E r \in Runs : TaskStarted(r)) /\ UNCHANGED <<pvars, gvars, rvars, cvars, bvars>>
    \/ (\E r \in Runs : NodeCompleted(r)) /\ UNCHANGED <<pvars, gvars, rvars, cvars, bvars>>
    \/ (\E r \in Runs : StreamEnded(r)) /\ UNCHANGED <<pvars, gvars, rvars, cvars, bvars>>
    \/ (\E r \in Runs : SendEnded(r)) /\ UNCHANGED <<pvars, gvars, rvars, cvars, bvars>>

InitWS == WSStart /\ PipelineIdle /\ GitIdle /\ RetryIdle /\ CallsIdle /\ BuiltIdle

SpecWS == InitWS /\ [][NextWS]_vars

InitRuns == RunsStart /\ PipelineIdle /\ GitIdle /\ RetryIdle /\ CallsIdle /\ BuiltIdle

\* two runs at a time
SpecRuns == InitRuns /\ [][NextWS]_vars

NextBuilt == BuiltStep /\ UNCHANGED <<pvars, gvars, rvars, cvars, wvars>>

InitBuilt == BuiltStart /\ PipelineIdle /\ GitIdle /\ RetryIdle /\ CallsIdle /\ WSIdle

SpecBuilt == InitBuilt /\ [][NextBuilt]_vars

\* the executor runs the next node whenever there is one
FairSpecBuilt == SpecBuilt /\ WF_vars(NextBuilt)

-----------------------------------------------------------------------------
(* Properties *)

Halted == pc = END \/ pc = RAISED

C2_ShouldRetryIff ==
    rmret.op = "should_retry" =>
        (rmret.result <=> (rmret.conclusion = "failure" /\ rm._attempts < rm.max_retries))

\* a retry approved after an attempt was already tracked
C2_Witness ==
    /\ rmret.op = "should_retry"
    /\ rmret.result
    /\ rm._attempts > 0

\* C3: no commit is created and no push is sent on main or master, whatever
\* branch is active at each call, and create_branch never checks out a
\* protected name.
C3_ProtectedBranchNeverMutated ==
    /\ \A i \in 1..Len(repo.commits) : repo.commits[i].branch \notin {"main", "master"}
    /\ \A i \in 1..Len(repo.pushes) : repo.pushes[i] \notin {"main", "master"}
    /\ (ret.op \in {"commit_all", "commit_fix", "push_current_branch"}
            /\ ret.branch \in {"main", "master"})
        => (~ret.committed /\ ~ret.pushed)
    /\ (ret.op = "create_branch" /\ repo.active \in {"main", "master"})
        => (ret.res # "OK" /\ repo.active = ret.branch)

\* commits and pushes were made on a feature branch, then main was checked out
\* and commit_fix was called on changed files
C3_Witness ==
    /\ ret.op = "commit_fix"
    /\ ret.branch = "main"
    /\ ret.dirty
    /\ Len(repo.commits) > 0
    /\ Len(repo.pushes) > 0

\* C4 (as claimed): committing on a protected branch always raises the
\* branch-protection error and creates no commit, for commit_all and commit_fix,
\* whether or not the working tree has changes.
C4_AsClaimed ==
    (ret.op \in {"commit_all", "commit_fix"} /\ ret.branch \in PROTECTED_BRANCHES)
        => (ret.res = "BranchProtectionError" /\ ~ret.committed)

\* C4 (amended): committing on a protected branch never creates a commit and
\* always raises: commit_all raises the branch-protection error whatever the
\* tree; commit_fix raises it when the tree has changes, and raises the
\* no-changes error when the tree is clean.
C4_ProtectedCommitRefused ==
    /\ (ret.op = "commit_all" /\ ret.branch \in {"main", "master"})
        => (ret.res = "BranchProtectionError" /\ ~ret.committed /\ ~ret.pushed)
    /\ (ret.op = "commit_fix" /\ ret.branch \in {"main", "master"})
        => /\ ~ret.committed
           /\ ~ret.pushed
           /\ ret.res = IF ret.dirty THEN "BranchProtectionError"
                        ELSE "NoChangesDetectedError"

\* commit_fix on a protected branch with a clean tree
C4_Witness ==
    /\ ret.op = "commit_fix"
    /\ ret.branch = "master"
    /\ ~ret.dirty
    /\ ret.res = "NoChangesDetectedError"

C6_FinalStatusOnceAtEnd ==
    /\ [](state.final_status # None <=> pc = END)
    /\ [][state.final_status # None => state'.final_status = state.final_status]_vars
    /\ [][state'.final_status # state.final_status
            => (pc \in {"run_tests", "monitor_ci", "retry_decision"} /\ pc' = END)]_vars

\* a run that ended fixed after a retry
C6_Witness ==
    /\ pc = END
    /\ state.final_status = "fixed"
    /\ state.iteration > 0

\* C7: iteration <= max_retries in every state of a run started with
\* iteration = 0, and a retry is granted only where iteration < max_retries.
C7_IterationWithinMaxRetries ==
    /\ [](state.iteration <= state.max_retries)
    /\ [][state'.iteration # state.iteration => state.iteration < state.max_retries]_vars

\* the last retry was granted: iteration has reached max_retries
C7_Witness ==
    /\ prev.node = "retry_decision"
    /\ state.iteration = state.max_retries
    /\ state.max_retries = 2

\* C8: iteration changes only in node_retry_decision, by exactly +1 on a granted
\* retry and not at all on a refusal; no node changes max_retries.
C8_IterationFrame ==
    [][ /\ state'.max_retries = state.max_retries
        /\ pc # "retry_decision" => state'.iteration = state.iteration
        /\ (pc = "retry_decision" /\ pc' = "run_tests")
            => state'.iteration = state.iteration + 1
        /\ (pc = "retry_decision" /\ pc' # "run_tests")
            => state'.iteration = state.iteration ]_vars

\* a second retry was granted
C8_Witness ==
    /\ prev.node = "retry_decision"
    /\ pc = "run_tests"
    /\ state.iteration = 2

\* C9 (as claimed): when the clone fails the run halts: no later node is
\* executed and no retry is attempted.
C9_CloneFailureHalts ==
    (~env.clone_ok /\ runs["clone_repo"] > 0)
        => \A n \in Nodes \ {"clone_repo"} : runs[n] = 0

IsPrefix(a, b) == Len(a) <= Len(b) /\ SubSeq(b, 1, Len(a)) = a

\* C11 (as claimed): no node of the compiled pipeline lets an exception escape:
\* whatever its collaborators do, each node returns an update.
C11_NoExceptionEscapes == pc # RAISED

\* C12 (as claimed): validate_fix returns VALID iff the new content differs from
\* the original, parses as well-formed source and the classification kind is
\* one of the recognized bug types; a fix identical to the original is INVALID.
C12_ValidIffChangedParsedRecognized ==
    call.fn = "validate_fix" =>
        (call.result = "VALID"
            <=> /\ call.updated_content.changed
                /\ call.updated_content.syntax = "ok"
                /\ call.kind \in {"LINTING", "SYNTAX", "LOGIC", "TYPE_ERROR",
                                  "IMPORT", "INDENTATION"})

\* C13 (as claimed): after a repair pass, applied_fixes[i] is the fix generated
\* for classified_failures[i] of that pass, for every index i of applied_fixes.
C13_FixesAlignedWithFailures ==
    prev.node = "fix_generator" =>
        /\ Len(state.applied_fixes) <= Len(state.classified_failures)
        /\ \A i \in 1..Len(state.applied_fixes) : state.applied_fixes[i].prompt = i

\* C14: failures only grows within a run: a run of the tests that fails appends
\* at least one record, exactly the record file="unknown", line=0 when no
\* `path:line: message` line is parsed, and no node removes, changes or
\* truncates the records appended earlier.
C14_FailuresOnlyGrow ==
    /\ [][IsPrefix(state.failures, state'.failures)]_vars
    /\ [][pc # "run_tests" => state'.failures = state.failures]_vars
    /\ [][(pc = "run_tests" /\ pc' = "failure_classifier")
            => Len(state'.failures) > Len(state.failures)]_vars
    /\ [][(pc = "run_tests" /\ pc' = "failure_classifier" /\ env.errors = <<>>)
            => /\ Len(state'.failures) = Len(state.failures) + 1
               /\ state'.failures[Len(state'.failures)].file = "unknown"
               /\ state'.failures[Len(state'.failures)].line = 0]_vars

\* the tests failed in three iterations without a parsable line: three
\* fallback records, in the order of the iterations
C14_Witness ==
    /\ Len(state.failures) = 3
    /\ \A i \in 1..3 : /\ state.failures[i].file = "unknown"
                       /\ state.failures[i].iteration = i - 1
    /\ pc = END

\* C15 (as claimed): logs is append-only over the nodes of a run: after every
\* node the previous sequence is a prefix of the new one, from the initial
\* 'Pipeline started' line on.
C15_LogsAppendOnly == [][IsPrefix(state.logs, state'.logs)]_vars

\* C16 (as claimed): for every string s returned by classify_failure, its
\* fallback included, reconstruct_format(s) succeeds and yields the kind, file
\* and line of s, the file lowercased.
C16_ClassificationRoundTrip ==
    call.fn = "classify_failure" =>
        LET s == call.result.value
            again == reconstruct_format(s)
            parsed == re_match(again.value)
            j == Maximum(FormatSplits(s))
        IN  /\ again.raised = ""
            /\ parsed.matched
            /\ parsed.bug_type = s[1]
            /\ parsed.file_path = lower(SubSeq(s, 3, j - 1))
            /\ parsed.line = s[j + 1]

\* C17: classify_failure never raises; when the AI capability raises or its
\* text does not match the grammar the result is the record
\* 'UNKNOWN error in {file} line {line} → Fix: manual review required', and
\* otherwise it is a string of the grammar whose kind is one of the six bug types.
C17_ClassifyNeverRaises ==
    call.fn = "classify_failure" =>
        /\ call.result.raised = ""
        /\ IF \/ call.reply.raised # ""
              \/ call.reply.null
              \/ ~re_match(strip(call.reply.value)).matched
           THEN call.result.value =
                    <<"UNKNOWN", " error in ", call.file_path, " line ",
                      ToString(call.line_number), " → Fix: ", "manual review required">>
           ELSE /\ re_match(call.result.value).matched
                /\ call.result.value[1] \in {"LINTING", "SYNTAX", "LOGIC", "TYPE_ERROR",
                                             "IMPORT", "INDENTATION"}
                /\ call.result.value[2] = " error in "

\* the AI answered with a text outside the grammar and the fallback came back
C17_Witness ==
    /\ call.fn = "classify_failure"
    /\ call.reply.raised = ""
    /\ ~call.reply.null
    /\ Len(call.reply.value) > 4
    /\ call.result.value[1] = "UNKNOWN"
    /\ call.result.value[3] = call.file_path

\* C18 (as claimed): monitor_ci reports completed only for a run whose status is
\* 'completed', success only for a completed run whose conclusion is 'success',
\* and for any transport or API error of the provider call it returns
\* completed=false, success=false instead of raising.
C18_MonitorNeverRaises ==
    call.fn = "monitor_ci" =>
        /\ call.result.completed
            => (call.response.http = "ok" /\ call.response.runs # <<>>
                /\ call.response.runs[1].status = "completed")
        /\ call.result.success
            => (call.result.completed /\ call.response.runs[1].conclusion = "success")
        /\ call.response.http # "ok"
            => (call.result.raised = "" /\ ~call.result.completed /\ ~call.result.success)

\* C19 (as claimed): when the pipeline_update of a node has been broadcast,
\* every observer that was subscribed to R and reachable from the start of the
\* broadcast to its end has been sent the update, whatever the other observers
\* did meanwhile.
C19_UpdateReachesSteadyObservers ==
    \A r \in Runs :
        (bcast[r].kind = "pipeline_update" /\ bcast[r].pc \in {"returned", "KeyError"})
            => bcast[r].steady \subseteq bcast[r].delivered

\* C20 (as claimed): send_to_run never raises, whatever the observers do, and
\* the registry entry of the run ends with the status of the run's outcome.
C20_ObserversNeverChangeTheRun ==
    \A r \in Runs :
        /\ bcast[r].pc # "KeyError"
        /\ pipeline_runs[r].phase = "done" => pipeline_runs[r].status = pipeline_runs[r].outcome

\* the nodes of a repair pass, in the order compile() wires them
RepairPass == <<"failure_classifier", "fix_generator", "fix_validator",
                "git_committer", "push_branch", "monitor_ci">>

\* C24: Scenario A: when the tests pass at iteration 0 the run ends with
\* final_status 'passed', applied_fixes empty, no commit and no push made, and
\* no repair, CI or retry node executed.
C24_ScenarioA ==
    (prev.node = "run_tests" /\ runs["run_tests"] = 1 /\ state.ci_status = "passed")
        => /\ pc = END
           /\ state.final_status = "passed"
           /\ state.iteration = 0
           /\ state.applied_fixes = <<>>
           /\ repo.commits = <<>>
           /\ repo.pushes = <<>>
           /\ \A n \in Nodes \ {"clone_repo", "run_tests"} : runs[n] = 0

\* the first run of the suite passed and the run is over
C24_Witness ==
    /\ pc = END
    /\ prev.node = "run_tests"
    /\ runs["run_tests"] = 1
    /\ state.final_status = "passed"

\* C25: Scenario B: when the tests fail once with one failure record, a fix is
\* generated for it and validated VALID, and CI then reports success, the run
\* ends with final_status 'fixed', applied_fixes of length 1 and iteration 0.
C25_ScenarioB ==
    (/\ Len(env.errors) = 1
     /\ env.file_exists
     /\ env.fix = "valid"
     /\ prev.node = "monitor_ci"
     /\ runs["monitor_ci"] = 1
     /\ state.ci_status = "passed")
        => /\ pc = END
           /\ state.final_status = "fixed"
           /\ state.iteration = 0
           /\ Len(state.failures) = 1
           /\ Len(state.applied_fixes) = 1
           /\ validate_fix(state.applied_fixes[1]) = "VALID"
           /\ runs["run_tests"] = 1
           /\ runs["retry_decision"] = 0

\* one failure, one valid fix, CI green at the first poll
C25_Witness ==
    /\ pc = END
    /\ prev.node = "monitor_ci"
    /\ runs["monitor_ci"] = 1
    /\ Len(state.failures) = 1
    /\ Len(state.applied_fixes) = 1
    /\ state.final_status = "fixed"

\* C26: Scenario C: with max_retries = 2, tests failing and CI failing on every
\* iteration, the first two retry decisions grant a retry (iteration 1, then 2)
\* and the third is a refusal: the run ends with final_status 'failed',
\* iteration 2, after three runs of the suite.
C26_ScenarioC ==
    (state.max_retries = 2 /\ prev.node = "retry_decision")
        => IF runs["retry_decision"] <= 2
           THEN /\ pc = "run_tests"
                /\ state.iteration = runs["retry_decision"]
                /\ state.final_status = None
           ELSE /\ runs["retry_decision"] = 3
                /\ pc = END
                /\ state.final_status = "failed"
                /\ state.iteration = 2
                /\ runs["run_tests"] = 3
                /\ runs["monitor_ci"] = 3

\* the third retry decision has refused
C26_Witness ==
    /\ state.max_retries = 2
    /\ prev.node = "retry_decision"
    /\ runs["retry_decision"] = 3
    /\ state.final_status = "failed"
    /\ state.ci_status = "failed"

C29_CommitsCarryTheMarker ==
    \A i \in 1..Len(repo.commits) :
        /\ \E m \in Messages : repo.commits[i].message = "[AI-AGENT] " \o m
        /\ validate_commit_message(repo.commits[i].message) = "OK"

\* commit_all and then commit_fix have each made a commit, with two messages
C29_Witness ==
    /\ ret.op = "commit_fix"
    /\ ret.committed
    /\ Len(repo.commits) = 2
    /\ repo.commits[1].message = "[AI-AGENT] m1"
    /\ repo.commits[2].message = "[AI-AGENT] m2"

\* C27 (as claimed): when the repository has no test files, whether it has no
\* tests directory or an empty one, run_tests writes the failing fixture before
\* it runs the suite, never reports a pass, adds at least one entry to failures
\* and routes to failure_classifier.
C27_ScenarioD ==
    [][(pc = "run_tests" /\ pc' # pc /\ PathExists /\ repo.tests \in {"none", "empty_dir"})
        => /\ repo'.tests = "tests"
           /\ repo'.tree.untracked
           /\ state'.ci_status # "passed"
           /\ Len(state'.failures) > Len(state.failures)
           /\ pc' = "failure_classifier"]_vars

\* C28 (as claimed): run_pytest_in_docker never raises to its caller: a timeout,
\* missing tooling, a subprocess or OS fault, a missing or unreadable repository
\* path all give success=false with error set; success=true only when the test
\* process exited with code 0; on timeout the output captured so far is kept.
C28_SandboxNeverRaises ==
    call.fn = "run_pytest_in_docker" =>
        /\ call.result.raised = ""
        /\ (call.proc.kind # "exit" \/ call.path \in {"missing", "not_a_directory"})
            => (~call.result.success /\ call.result.error # None)
        /\ call.result.success => (call.proc.kind = "exit" /\ call.proc.code = 0)
        /\ call.proc.kind = "TimeoutExpired" => call.result.stdout = call.proc.out

C22_OneFinalEvent ==
    \A r \in Runs :
        IF pipeline_runs[r].phase \in {"none", "pending"} THEN TRUE
        ELSE /\ pipeline_runs[r].finals <= 1
             /\ pipeline_runs[r].phase = "done" => pipeline_runs[r].finals = 1
             /\ pipeline_runs[r].phase = "streaming" => pipeline_runs[r].finals = 0

\* a step of the task of run r: run_pipeline or its send_to_run moved
TaskStep(r) ==
    \/ pipeline_runs'[r] # pipeline_runs[r]
    \/ bcast'[r].pc # bcast[r].pc
    \/ bcast'[r].idx # bcast[r].idx

validation_results(s) ==
    [i \in 1..Len(s.applied_fixes) |-> validate_fix(s.applied_fixes[i])]

\* C31 (as claimed): git_committer commits only verified fixes: when
\* fix_validator gave an INVALID verdict to a fix of the current pass, the
\* git_committer and push_branch steps of that pass create and push no commit.
C31_OnlyVerifiedFixesCommitted ==
    [][(/\ pc \in {"git_committer", "push_branch"}
        /\ \E i \in 1..Len(state.applied_fixes) :
               validation_results(state)[i] # "VALID")
          => /\ repo'.commits = repo.commits
             /\ repo'.pushes = repo.pushes]_vars

\* the line node_monitor_ci logged last: what monitor_ci answered
Polled(completed, success) ==
    /\ prev.node = "monitor_ci"
    /\ ~prev.raised
    /\ state.logs[Len(state.logs)] = "[monitor_ci] completed=" \o ToString(completed)
                                         \o ", success=" \o ToString(success)

\* C32 (as claimed): monitor_ci waits for CI: after a poll that found the
\* latest workflow run not completed (queued, in progress, none, or the
\* provider unreachable) the run is not routed to retry_decision and ci_status
\* is not "failed"; the route to retry_decision is taken only after a
\* completed run whose conclusion is not success.
C32_MonitorWaitsForCI ==
    /\ Polled(FALSE, FALSE) => (pc # "retry_decision" /\ state.ci_status # "failed")
    /\ (prev.node = "monitor_ci" /\ pc = "retry_decision") => Polled(TRUE, FALSE)

\* one RetryManager kept for the whole run, track_attempt called once for each
\* retry granted so far; every execution of retry_decision before the current
\* one granted a retry, a refusal being followed by END
KeptManager ==
    fast_forward(RetryManager(state.max_retries), runs["retry_decision"])

\* C33: the decision of node_retry_decision is a function of (iteration,
\* max_retries): it grants a retry iff iteration < max_retries, and that is, at
\* every retry_decision step of every run, what should_retry("failure")
\* answers on one RetryManager kept for the whole run with track_attempt
\* called once per grant.
C33_DecisionReplaysKeptManager ==
    [][pc = "retry_decision" =>
          LET granted == state'.final_status # "failed" /\ state'.iteration = state.iteration + 1
          IN  /\ granted <=> state.iteration < state.max_retries
              /\ granted <=> should_retry(KeptManager, "failure")
              /\ ~granted => (state'.final_status = "failed" /\ state'.iteration = state.iteration)]_vars

\* retry_decision has refused a retry after having granted at least one
C33_Witness ==
    /\ prev.node = "retry_decision"
    /\ state.final_status = "failed"
    /\ state.iteration >= 1
    /\ runs["retry_decision"] = state.iteration + 1

\* C34: should_retry and has_exceeded never change the attempt counter of a
\* RetryManager; track_attempt is the only operation that changes it, and every
\* call of it adds exactly 1, whatever max_retries is.
C34_OnlyTrackAttemptCounts ==
    [][/\ rmret'.op \in {"should_retry", "has_exceeded"} => rm' = rm
       /\ rm' # rm => rmret'.op = "track_attempt"
       /\ rmret'.op = "track_attempt"
             => (rm'._attempts = rm._attempts + 1 /\ rm'.max_retries = rm.max_retries)]_vars

\* track_attempt has counted an attempt beyond max_retries, and should_retry
\* was asked in between
C34_Witness ==
    /\ rmret.op = "should_retry"
    /\ rmret.conclusion = "failure"
    /\ rm._attempts > rm.max_retries
    /\ rm.max_retries > 0

C36_EdgesTargetRegisteredNodes ==
    /\ call.fn \in {"after_tests", "after_ci", "after_retry"}
          => call.result \in Nodes \cup {END}
    /\ call.fn = "decide" => call.result \in BuiltNodes \cup {END}

\* decide has sent a state with retries left into the cycle
C36_Witness ==
    /\ call.fn = "decide"
    /\ call.s.iteration < call.s.max_retries
    /\ call.result = "reflection_agent"

\* the writes of a registry entry's status one step of run_pipeline makes: RUNNING
\* at the start of the task (overwritten by FAILED within the step when
\* compile_graph raises), then COMPLETED or FAILED
StatusMoves(old, new) ==
    \/ old = new
    \/ old = "PENDING" /\ new \in {"RUNNING", "FAILED"}
    \/ old = "RUNNING" /\ new \in {"COMPLETED", "FAILED"}

\* C37 (as claimed): the status of a registry entry only moves PENDING to
\* RUNNING to COMPLETED or FAILED and never leaves COMPLETED or FAILED; when
\* the task is over it is COMPLETED exactly when the final verdict of the run
\* is passed or fixed.
C37_StatusLifecycle ==
    /\ [][\A r \in Runs :
            pipeline_runs[r].phase # "none"
                => StatusMoves(pipeline_runs[r].status, pipeline_runs'[r].status)]_vars
    /\ [](\A r \in Runs :
            pipeline_runs[r].phase = "done"
                => (pipeline_runs[r].status = "COMPLETED"
                        <=> pipeline_runs[r].verdict \in {"passed", "fixed"}))

\* C38 (as claimed): a run has final_status "fixed" only if during the run a
\* fix was applied and a commit was created and pushed.
C38_FixedMeansFixPushed ==
    state.final_status = "fixed" =>
        /\ Len(state.applied_fixes) >= 1
        /\ repo.commits # <<>>
        /\ repo.pushes # <<>>

\* C39 (as claimed): a trace line produced by a node is in pipeline_logs[run_id]
\* at most once, however many later nodes resend it in the logs list of
\* their update.
C39_TraceLineStoredOnce ==
    call.fn = "merge_logs" =>
        \A log \in Range(call.lines) :
            Cardinality({i \in DOMAIN call.result :
                \E k \in 0..Len(call.lines) :
                    call.result[i] = Stamped(Timestamp(k), log)}) <= 1

\* C40 (as claimed): websocket_connections[run_id] never holds the same
\* observer twice, no broadcast sends its event to an observer that has already
\* got it, and an observer whose disconnect has been handled is in no run's
\* subscriber list.
C40_SubscribedOnce ==
    \A r \in Runs :
        LET list == websocket_connections[r].list
        IN  /\ \A i, j \in DOMAIN list : list[i] = list[j] => i = j
            /\ bcast[r].pc = "sending" => bcast[r].cur \notin bcast[r].delivered
            /\ \A o \in Observers : sock[o] = "closed" => o \notin Range(list)

====
